---- MODULE Spec2Model ----
(***************************************************************************)
(* Depth-first state-space exploration, instantiated four ways:            *)
(*   A  DFS.py                single-result DFS over a weighted graph      *)
(*   B  find_longest_path.py  backtracking longest ascending path (grid)   *)
(*   C  flood_fill.py         in-place flood fill (grid)                   *)
(*   D  word_matrix.py        prefix-pruned word search (grid)             *)
(* Each strategy has its own variables, initial condition, next-state      *)
(* relation and specification (SpecA .. SpecD).                            *)
(***************************************************************************)
EXTENDS Integers, Sequences, FiniteSets, TLC

(***************************************************************************)
(* Bounds of the explored input space.                                     *)
(***************************************************************************)
MaxNodes == 3
MaxEdges == 3
MaxCost == 2
MaxCellsB == 4
NumChars == 4
MaxCellsC == 4
MaxCellsD == 4
MaxDictLetters == 4

VARIABLES
    \* ---- Strategy A (DFS.py) ----
    graph,      \* ItalyGraphProblem.graph: state -> sequence of <<neighbour, cost>> (dict order)
    initial,    \* problem.initial
    goal,       \* problem.goal
    nodes,      \* every Node object created so far; a Node is referred to by its index
    frontier,   \* the LIFO frontier: sequence of Node indices, top is the last element
    explored,   \* the explored set
    retA,       \* the value returned by depth_first_search
    pcA,        \* "idle" | "loop" | "done"
    nMarked,    \* state -> number of explored.add(state) calls
    nTested,    \* state -> number of is_goal(state) calls
    nExpanded,  \* state -> number of expand(problem, node) calls with node.state = state
    popped,     \* the Nodes returned by frontier.pop() so far, in order
    \* ---- Strategy B (find_longest_path.py) ----
    probB,      \* the MatrixPathProblem: matrix, start_char, rows, cols, initial
    startIdx,   \* position of the loop over problem.initial (1-based)
    max_path_length,
    stackB,     \* the active recursive_dfs calls, innermost last
    visited,    \* the visited set shared by the calls of one start state
    retB,       \* the value returned by depth_first_search
    pcB,        \* "idle" | "new" | "fault" | "loop" | "done"
    \* ---- Strategy C (flood_fill.py) ----
    probC,      \* the FloodFillProblem: start_node, target_color, replacement_color, and rows, cols of the matrix
    matrixC,    \* self.matrix, mutated in place
    callsC,     \* the dfs calls still to be made, the next one last
    pcC,        \* "idle" | "call" | "dfs" | "returned" | "fault"
    runC,       \* 1 for the first call of fill(), 2 for the call repeated on its result
    entryC,     \* self.matrix as it was when the current call of fill() started
    accessed,   \* the coordinates at which self.matrix has been indexed
    nWrites,    \* coordinate -> number of writes during the current call of fill()
    \* ---- Strategy D (word_matrix.py) ----
    probD,      \* the MatrixWordSearchProblem: board, dictionary, rows, cols, prefixes
    cellIdx,    \* position of the loop of find_all_words over the coordinates (1-based)
    found_all,  \* found_words of find_all_words
    found_words, \* found_words of the running find_words_from
    stackD,     \* stack of the running find_words_from, top last
    retD,       \* the value returned by find_all_words
    pcD         \* "idle" | "outer" | "inner" | "done"

varsA == <<graph, initial, goal, nodes, frontier, explored, retA, pcA,
           nMarked, nTested, nExpanded, popped>>

varsB == <<probB, startIdx, max_path_length, stackB, visited, retB, pcB>>

varsC == <<probC, matrixC, callsC, pcC, runC, entryC, accessed, nWrites>>

varsD == <<probD, cellIdx, found_all, found_words, stackD, retD, pcD>>

vars == <<varsA, varsB, varsC, varsD>>

\* the variables a step of strategy A / B / C / D leaves alone
restA == <<varsB, varsC, varsD>>

restB == <<varsA, varsC, varsD>>

restC == <<varsA, varsB, varsD>>

restD == <<varsA, varsB, varsC>>

(***************************************************************************)
(* Generic helpers on sequences.                                           *)
(***************************************************************************)
Range(s) == {s[i] : i \in 1..Len(s)}

Last(s) == s[Len(s)]

Front(s) == SubSeq(s, 1, Len(s) - 1)

RECURSIVE SumSeq(_)
SumSeq(s) == IF s = <<>> THEN 0 ELSE s[1] + SumSeq(Tail(s))

Max2(a, b) == IF a >= b THEN a ELSE b

(***************************************************************************)
(* Strategy A: DFS.py                                                      *)
(***************************************************************************)
States == 1..MaxNodes

Keys(adj) == {adj[i][1] : i \in 1..Len(adj)}

EmptyGraph == [s \in States |-> <<>>]

\* The distance table the graph literals are cut from: graph[s][t], when the
\* edge is present, is Distance(s, t). As in the graph of DFS.py, the two
\* directions of a road need not have the same distance.
Distance(s, t) == 1 + ((s * (t + 1)) % MaxCost)

\* All graphs with at most k edges: every dict literal a caller can write
\* over States, neighbours kept in insertion order.
RECURSIVE GraphsUpTo(_)
GraphsUpTo(k) ==
    IF k = 0 THEN {EmptyGraph}
    ELSE LET G == GraphsUpTo(k - 1)
         IN  G \cup UNION { { [g EXCEPT ![s] = Append(g[s], <<t, Distance(s, t)>>)] :
                                t \in States \ Keys(g[s]) } :
                            g \in G, s \in States }

\* Node(state, parent, action, path_cost); parent is a Node index, 0 for None
Node(state, parent, action, path_cost) ==
    [state |-> state, parent |-> parent, action |-> action, path_cost |-> path_cost]

NoAction == 0

\* ItalyGraphProblem.actions: the keys of graph[state] in dict order
Italy_actions(state) == [i \in 1..Len(graph[state]) |-> graph[state][i][1]]

\* ItalyGraphProblem.result
Italy_result(state, action) == action

\* Problem.action_cost, as if ItalyGraphProblem did not override it
Italy_action_cost_unit(s, a, s1) == 1

\* ItalyGraphProblem.action_cost: graph[s][s1]
Italy_action_cost(s, a, s1) ==
    LET i == CHOOSE j \in 1..Len(graph[s]) : graph[s][j][1] = s1
    IN  graph[s][i][2]

\* ItalyGraphProblem.is_goal
Italy_is_goal(state) == state = goal

\* expand with the parent's path_cost left out of the child's cost
expand_dropParentCost(n) ==
    LET s == nodes[n].state
        acts == Italy_actions(s)
    IN  [i \in 1..Len(acts) |->
            LET s1 == Italy_result(s, acts[i])
                cost == Italy_action_cost(s, acts[i], s1)
            IN  Node(s1, n, acts[i], cost)]

\* expand(problem, node): the children of Node n, in the order actions yields
expand(n) ==
    LET s == nodes[n].state
        acts == Italy_actions(s)
    IN  [i \in 1..Len(acts) |->
            LET s1 == Italy_result(s, acts[i])
                cost == nodes[n].path_cost + Italy_action_cost(s, acts[i], s1)
            IN  Node(s1, n, acts[i], cost)]

\* the sentinel Nodes failure and cutoff; they are outside the Node store
failure == -1

cutoff == -2

\* the Node a reference stands for: the sentinels are Nodes without parent
\* and action, their path_cost math.inf, which takes part in no arithmetic
NodeAt(ns, n) ==
    IF n = failure THEN Node("failure", 0, NoAction, "inf")
    ELSE IF n = cutoff THEN Node("cutoff", 0, NoAction, "inf")
    ELSE ns[n]

\* path_states that stops at the root, as path_actions does
RECURSIVE path_states_dropRoot(_, _)
path_states_dropRoot(ns, n) ==
    IF n \in {cutoff, failure, 0} THEN <<>>
    ELSE IF ns[n].parent = 0 THEN <<>>
    ELSE Append(path_states_dropRoot(ns, ns[n].parent), ns[n].state)

\* path_states(node) over the Node store ns; 0 is None
RECURSIVE path_states(_, _)
path_states(ns, n) ==
    IF n \in {cutoff, failure, 0} THEN <<>>
    ELSE Append(path_states(ns, ns[n].parent), ns[n].state)

\* path_actions(node)
RECURSIVE path_actions(_, _)
path_actions(ns, n) ==
    IF NodeAt(ns, n).parent = 0 THEN <<>>
    ELSE Append(path_actions(ns, NodeAt(ns, n).parent), NodeAt(ns, n).action)

\* Strategy B is not running
IdleB ==
    /\ probB = [matrix |-> <<>>, start_char |-> 0, rows |-> 0, cols |-> 0,
                initial |-> <<>>]
    /\ startIdx = 0
    /\ max_path_length = 0
    /\ stackB = <<>>
    /\ visited = {}
    /\ retB = 0
    /\ pcB = "idle"

\* Strategy C is not running
IdleC ==
    /\ probC = [start_node |-> <<0, 0>>, target_color |-> "", replacement_color |-> "",
                rows |-> 0, cols |-> 0]
    /\ matrixC = <<>>
    /\ callsC = <<>>
    /\ pcC = "idle"
    /\ runC = 0
    /\ entryC = <<>>
    /\ accessed = {}
    /\ nWrites = <<>>

\* Strategy D is not running
IdleD ==
    /\ probD = [board |-> <<>>, dictionary |-> {}, rows |-> 0, cols |-> 0,
                prefixes |-> {}]
    /\ cellIdx = 0
    /\ found_all = {}
    /\ found_words = {}
    /\ stackD = <<>>
    /\ retD = {}
    /\ pcD = "idle"

NoResult == [isNone |-> TRUE, path |-> <<>>, cost |-> 0, costInf |-> FALSE]

\* Strategy A is not running
IdleA ==
    /\ graph = EmptyGraph
    /\ initial = 0
    /\ goal = 0
    /\ nodes = <<>>
    /\ frontier = <<>>
    /\ explored = {}
    /\ retA = NoResult
    /\ pcA = "idle"
    /\ nMarked = [s \in States |-> 0]
    /\ nTested = [s \in States |-> 0]
    /\ nExpanded = [s \in States |-> 0]
    /\ popped = <<>>

Bump(f, s) == [f EXCEPT ![s] = @ + 1]

InitA ==
    /\ graph \in GraphsUpTo(MaxEdges)
    /\ initial \in States
    /\ goal \in States
    /\ nodes = <<Node(initial, 0, NoAction, 0)>>
    /\ frontier = <<1>>
    /\ explored = {}
    /\ retA = NoResult
    /\ pcA = "loop"
    /\ nMarked = [s \in States |-> 0]
    /\ nTested = [s \in States |-> 0]
    /\ nExpanded = [s \in States |-> 0]
    /\ popped = <<>>
    /\ IdleB
    /\ IdleC
    /\ IdleD

\* PopExplored that expands the popped node again instead of discarding it
PopExplored_reexpand ==
    /\ pcA = "loop"
    /\ frontier # <<>>
    /\ popped' = Append(popped, Last(frontier))
    /\ LET n == Last(frontier)
           s == nodes[n].state
           children == expand(n)
       IN  /\ s \in explored
           /\ nodes' = nodes \o children
           /\ frontier' = Front(frontier) \o
                            [i \in 1..Len(children) |-> Len(nodes) + i]
           /\ nExpanded' = Bump(nExpanded, s)
    /\ UNCHANGED <<restA, graph, initial, goal, explored, retA, pcA, nMarked, nTested>>

\* lines 113-117: pop a node whose state is already explored
PopExplored ==
    /\ pcA = "loop"
    /\ frontier # <<>>
    /\ popped' = Append(popped, Last(frontier))
    /\ nodes[Last(frontier)].state \in explored
    /\ frontier' = Front(frontier)
    /\ UNCHANGED <<restA, graph, initial, goal, nodes, explored, retA, pcA,
                   nMarked, nTested, nExpanded>>

\* lines 113-122: pop an unexplored goal node and return its path
PopGoal ==
    /\ pcA = "loop"
    /\ frontier # <<>>
    /\ popped' = Append(popped, Last(frontier))
    /\ LET n == Last(frontier)
           s == nodes[n].state
       IN  /\ s \notin explored
           /\ Italy_is_goal(s)
           /\ explored' = explored \cup {s}
           /\ frontier' = Front(frontier)
           /\ retA' = [isNone |-> FALSE, path |-> path_states(nodes, n),
                       cost |-> nodes[n].path_cost, costInf |-> FALSE]
           /\ nMarked' = Bump(nMarked, s)
           /\ nTested' = Bump(nTested, s)
    /\ pcA' = "done"
    /\ UNCHANGED <<restA, graph, initial, goal, nodes, nExpanded>>

\* PopExpand that also adds every child's state to explored when pushing it
PopExpand_markChildren ==
    /\ pcA = "loop"
    /\ frontier # <<>>
    /\ popped' = Append(popped, Last(frontier))
    /\ LET n == Last(frontier)
           s == nodes[n].state
           children == expand(n)
       IN  /\ s \notin explored
           /\ ~Italy_is_goal(s)
           /\ explored' = explored \cup {s} \cup
                            {children[i].state : i \in 1..Len(children)}
           /\ nodes' = nodes \o children
           /\ frontier' = Front(frontier) \o
                            [i \in 1..Len(children) |-> Len(nodes) + i]
           /\ nMarked' = Bump(nMarked, s)
           /\ nTested' = Bump(nTested, s)
           /\ nExpanded' = Bump(nExpanded, s)
    /\ UNCHANGED <<restA, graph, initial, goal, retA, pcA>>

\* PopExpand that pushes the children in reverse order
PopExpand_reversed ==
    /\ pcA = "loop"
    /\ frontier # <<>>
    /\ popped' = Append(popped, Last(frontier))
    /\ LET n == Last(frontier)
           s == nodes[n].state
           children == expand(n)
       IN  /\ s \notin explored
           /\ ~Italy_is_goal(s)
           /\ explored' = explored \cup {s}
           /\ nodes' = nodes \o children
           /\ frontier' = Front(frontier) \o
                            [i \in 1..Len(children) |-> Len(nodes) + Len(children) + 1 - i]
           /\ nMarked' = Bump(nMarked, s)
           /\ nTested' = Bump(nTested, s)
           /\ nExpanded' = Bump(nExpanded, s)
    /\ UNCHANGED <<restA, graph, initial, goal, retA, pcA>>

\* PopExpand that leaves explored.add(node.state) out for the node without
\* parent
PopExpand_rootUnmarked ==
    /\ pcA = "loop"
    /\ frontier # <<>>
    /\ popped' = Append(popped, Last(frontier))
    /\ LET n == Last(frontier)
           s == nodes[n].state
           children == expand(n)
       IN  /\ s \notin explored
           /\ ~Italy_is_goal(s)
           /\ explored' = IF nodes[n].parent = 0 THEN explored
                          ELSE explored \cup {s}
           /\ nodes' = nodes \o children
           /\ frontier' = Front(frontier) \o
                            [i \in 1..Len(children) |-> Len(nodes) + i]
           /\ nMarked' = Bump(nMarked, s)
           /\ nTested' = Bump(nTested, s)
           /\ nExpanded' = Bump(nExpanded, s)
    /\ UNCHANGED <<restA, graph, initial, goal, retA, pcA>>

\* lines 113-125: pop an unexplored non-goal node and push its children
PopExpand ==
    /\ pcA = "loop"
    /\ frontier # <<>>
    /\ popped' = Append(popped, Last(frontier))
    /\ LET n == Last(frontier)
           s == nodes[n].state
           children == expand(n)
       IN  /\ s \notin explored
           /\ ~Italy_is_goal(s)
           /\ explored' = explored \cup {s}
           /\ nodes' = nodes \o children
           /\ frontier' = Front(frontier) \o
                            [i \in 1..Len(children) |-> Len(nodes) + i]
           /\ nMarked' = Bump(nMarked, s)
           /\ nTested' = Bump(nTested, s)
           /\ nExpanded' = Bump(nExpanded, s)
    /\ UNCHANGED <<restA, graph, initial, goal, retA, pcA>>

\* FrontierEmpty that returns path_states(failure) = [] instead of None
FrontierEmpty_emptyPath ==
    /\ pcA = "loop"
    /\ frontier = <<>>
    /\ retA' = [isNone |-> FALSE, path |-> <<>>, cost |-> 0, costInf |-> TRUE]
    /\ pcA' = "done"
    /\ UNCHANGED <<restA, graph, initial, goal, nodes, frontier, popped, explored,
                   nMarked, nTested, nExpanded>>

\* lines 113, 127: the frontier is empty
FrontierEmpty ==
    /\ pcA = "loop"
    /\ frontier = <<>>
    /\ retA' = [isNone |-> TRUE, path |-> <<>>, cost |-> 0, costInf |-> TRUE]
    /\ pcA' = "done"
    /\ UNCHANGED <<restA, graph, initial, goal, nodes, frontier, popped, explored,
                   nMarked, nTested, nExpanded>>

\* depth_first_search(problem), one loop iteration per step
depth_first_search ==
    \/ PopExplored
    \/ PopGoal
    \/ PopExpand
    \/ FrontierEmpty

NextA == depth_first_search

SpecA == InitA /\ [][NextA]_vars

FairSpecA == SpecA /\ WF_vars(NextA)

(***************************************************************************)
(* Strategy A: reference notions the properties are stated against.        *)
(***************************************************************************)
Successors(S) == S \cup {t \in States : \E s \in S : t \in Keys(graph[s])}

RECURSIVE Closure(_)
Closure(S) == IF Successors(S) = S THEN S ELSE Closure(Successors(S))

\* the goal can be reached from problem.initial by some sequence of actions
GoalReachable == goal \in Closure({initial})

\* some action of s leads to t
Linked(s, t) ==
    \E i \in 1..Len(Italy_actions(s)) : Italy_result(s, Italy_actions(s)[i]) = t

\* the sum of action_cost over the consecutive pairs of p
PathCost(p) ==
    SumSeq([i \in 1..(Len(p) - 1) |->
              Italy_action_cost(p[i], p[i + 1], p[i + 1])])

ReturnedPathA == pcA = "done" /\ ~retA.isNone

ReturnedNoneA == pcA = "done" /\ retA.isNone

\* C1: a returned path starts at problem.initial, ends in a goal state, every
\* consecutive pair is linked by an action of the first state, and the
\* returned cost is the sum of the action costs along the path.
C1_PathValidity ==
    ReturnedPathA =>
        LET p == retA.path
        IN  /\ Len(p) >= 1
            /\ p[1] = initial
            /\ Italy_is_goal(Last(p))
            /\ \A i \in 1..(Len(p) - 1) : Linked(p[i], p[i + 1])
            /\ ~retA.costInf
            /\ retA.cost = PathCost(p)

C1_Witness ==
    /\ ReturnedPathA
    /\ Len(retA.path) = 3
    /\ retA.cost >= 3

\* C2: when no goal state is reachable the search returns (None, +inf), and
\* (None, +inf) is returned exactly when the frontier has emptied without a
\* goal node having been popped.
C2_NoPath ==
    pcA = "done" =>
        /\ ~GoalReachable =>
              retA = [isNone |-> TRUE, path |-> <<>>, cost |-> 0, costInf |-> TRUE]
        /\ retA.isNone <=> (frontier = <<>> /\ nTested[goal] = 0)
        /\ retA.isNone <=> retA.costInf

C2_Witness ==
    /\ ReturnedNoneA
    /\ ~GoalReachable
    /\ Cardinality(explored) >= 2

\* C3: when the goal is reachable a path is returned, and ([initial], 0)
\* when the initial state is the goal.
C3_Completeness ==
    (pcA = "done" /\ GoalReachable) =>
        /\ ~retA.isNone
        /\ initial = goal =>
              (retA.path = <<initial>> /\ retA.cost = 0 /\ ~retA.costInf)

C3_Witness ==
    /\ ReturnedPathA
    /\ GoalReachable
    /\ initial # goal
    /\ Len(nodes) >= 3

C3_WitnessRoot ==
    /\ ReturnedPathA
    /\ initial = goal
    /\ graph[initial] # <<>>

EachStateOnce ==
    \A s \in States : nMarked[s] <= 1 /\ nTested[s] <= 1 /\ nExpanded[s] <= 1

\* C9: the search eventually returns, and in every run each state is marked
\* explored, goal-tested and expanded at most once.
C9_Termination == (<>(pcA = "done")) /\ []EachStateOnce

\* a finished run on a cyclic graph in which an already explored state was
\* popped again and discarded
C9_Witness ==
    /\ pcA = "done"
    /\ \E s \in States : s \in Keys(graph[s]) \/
           \E t \in States \ {s} : t \in Keys(graph[s]) /\ s \in Keys(graph[t])
    /\ Len(nodes) > Cardinality(explored) + Len(frontier)

(***************************************************************************)
(* Strategy B: find_longest_path.py                                        *)
(* A matrix cell holds the code point of its character (ord), counted from *)
(* the smallest character of the alphabet.                                 *)
(***************************************************************************)
Chars == 1..NumChars

\* list indexing: a negative index counts from the end, an index outside
\* [-n, n) raises IndexError
IndexFaults(i, n) == i >= n \/ i < -n

PyIndex(i, n) == IF i < 0 THEN i + n ELSE i

\* the shapes rows x cols of the non-empty rectangular grids of at most n cells
Shapes(n) == {sh \in (1..n) \X (1..n) : sh[1] * sh[2] <= n}

\* all rows x cols grids over the values V, addressed grid[r][c] from 0
Grids(sh, V) == [0..(sh[1] - 1) -> [0..(sh[2] - 1) -> V]]

\* the shapes of the grids a caller can pass: the empty grid [] and the
\* rectangular grids of at most n cells
BoardShapes(n) == {<<0, 0>>} \cup Shapes(n)

\* product(range(rows), range(cols)): the coordinates in row-major order
RowMajor(rows, cols) ==
    [k \in 1..(rows * cols) |-> <<(k - 1) \div cols, (k - 1) % cols>>]

\* MatrixPathProblem.find_start_positions
find_start_positions(matrix, start_char, rows, cols) ==
    LET IsStart(rc) == matrix[rc[1]][rc[2]] = start_char
    IN  SelectSeq(RowMajor(rows, cols), IsStart)

\* MatrixPathProblem.__init__, lines 84-89; len(matrix[0]) needs a first row
MatrixPathProblem(matrix, start_char) ==
    LET rows == Cardinality(DOMAIN matrix)
        cols == Cardinality(DOMAIN matrix[0])
    IN  [matrix |-> matrix, start_char |-> start_char, rows |-> rows,
         cols |-> cols,
         initial |-> find_start_positions(matrix, start_char, rows, cols)]

\* product([-1, 0, 1], repeat=2)
Product3 == <<<<-1, -1>>, <<-1, 0>>, <<-1, 1>>,
              <<0, -1>>,  <<0, 0>>,  <<0, 1>>,
              <<1, -1>>,  <<1, 0>>,  <<1, 1>>>>

\* MatrixPathProblem.actions with any larger character accepted as the next one
MatrixPath_actions_anyLarger(state) ==
    LET r == state[1]
        c == state[2]
        Ok(d) == /\ (d[1] # 0 \/ d[2] # 0)
                 /\ 0 <= r + d[1] /\ r + d[1] < probB.rows
                 /\ 0 <= c + d[2] /\ c + d[2] < probB.cols
                 /\ probB.matrix[r + d[1]][c + d[2]] > probB.matrix[r][c]
    IN  SelectSeq(Product3, Ok)

\* MatrixPathProblem.actions accepting every neighbour whose character is not
\* smaller
MatrixPath_actions_notSmaller(state) ==
    LET r == state[1]
        c == state[2]
        Ok(d) == /\ (d[1] # 0 \/ d[2] # 0)
                 /\ 0 <= r + d[1] /\ r + d[1] < probB.rows
                 /\ 0 <= c + d[2] /\ c + d[2] < probB.cols
                 /\ probB.matrix[r + d[1]][c + d[2]] >= probB.matrix[r][c]
    IN  SelectSeq(Product3, Ok)

\* MatrixPathProblem.actions
MatrixPath_actions(state) ==
    LET r == state[1]
        c == state[2]
        Ok(d) == /\ (d[1] # 0 \/ d[2] # 0)
                 /\ 0 <= r + d[1] /\ r + d[1] < probB.rows
                 /\ 0 <= c + d[2] /\ c + d[2] < probB.cols
                 /\ probB.matrix[r + d[1]][c + d[2]] = probB.matrix[r][c] + 1
    IN  SelectSeq(Product3, Ok)

\* MatrixPathProblem.result
MatrixPath_result(state, action) ==
    <<state[1] + action[1], state[2] + action[2]>>

\* Problem.action_cost (not overridden)
Problem_action_cost(s, a, s1) == 1

\* expand(problem, node) of find_longest_path.py; depth is the position of
\* node's call on the stack, which is what the children's parent refers to
expandMatrix(node, depth) ==
    LET s == node.state
        acts == MatrixPath_actions(s)
    IN  [i \in 1..Len(acts) |->
            LET s1 == MatrixPath_result(s, acts[i])
                cost == node.path_cost + Problem_action_cost(s, acts[i], s1)
            IN  Node(s1, depth, acts[i], cost)]

\* the frame of a call recursive_dfs(node, visited) right after lines 127-128;
\* entry keeps the value visited had when the call was entered
Frame(node, depth, entry) ==
    [node |-> node, children |-> expandMatrix(node, depth), next |-> 1,
     max_length |-> 0, entry |-> entry]

\* the caller's MatrixPathProblem(matrix, start_char), before __init__ has
\* run: the attributes rows, cols and initial are not set yet
InitB ==
    /\ \E sh \in BoardShapes(MaxCellsB) :
         \E matrix \in Grids(sh, Chars) :
           \E start_char \in Chars :
             probB = [matrix |-> matrix, start_char |-> start_char,
                      rows |-> 0, cols |-> 0, initial |-> <<>>]
    /\ startIdx = 1
    /\ max_path_length = 0
    /\ stackB = <<>>
    /\ visited = {}
    /\ retB = 0
    /\ pcB = "new"
    /\ IdleA
    /\ IdleC
    /\ IdleD

\* line 87: len(matrix[0]) on the empty matrix raises IndexError
ConstructIndexError ==
    /\ pcB = "new"
    /\ IndexFaults(0, Cardinality(DOMAIN probB.matrix))
    /\ pcB' = "fault"
    /\ UNCHANGED <<probB, startIdx, max_path_length, stackB, visited, retB, restB>>

\* lines 84-89, 136: the problem is constructed and depth_first_search called
Construct ==
    /\ pcB = "new"
    /\ ~IndexFaults(0, Cardinality(DOMAIN probB.matrix))
    /\ probB' = MatrixPathProblem(probB.matrix, probB.start_char)
    /\ pcB' = "loop"
    /\ UNCHANGED <<startIdx, max_path_length, stackB, visited, retB, restB>>

\* lines 137-139: the next start state; recursive_dfs(Node(start_state), set())
\* is entered (lines 127-128)
StartSearch ==
    /\ pcB = "loop"
    /\ stackB = <<>>
    /\ startIdx <= Len(probB.initial)
    /\ LET node == Node(probB.initial[startIdx], 0, NoAction, 0)
       IN  /\ visited' = {node.state}
           /\ stackB' = <<Frame(node, 1, {})>>
    /\ UNCHANGED <<probB, startIdx, max_path_length, retB, pcB, restB>>

\* lines 129-132: the next child of the innermost call; recursive_dfs is
\* entered for it unless its state is in visited
NextChild ==
    /\ pcB = "loop"
    /\ stackB # <<>>
    /\ LET d == Len(stackB)
           f == stackB[d]
       IN  /\ f.next <= Len(f.children)
           /\ LET child == f.children[f.next]
                  advanced == [stackB EXCEPT ![d].next = @ + 1]
              IN  IF child.state \notin visited
                  THEN /\ visited' = visited \cup {child.state}
                       /\ stackB' = Append(advanced, Frame(child, d + 1, visited))
                  ELSE /\ visited' = visited
                       /\ stackB' = advanced
    /\ UNCHANGED <<probB, startIdx, max_path_length, retB, pcB, restB>>

\* ReturnToCaller without visited.remove(node.state)
ReturnToCaller_noRemove ==
    /\ pcB = "loop"
    /\ Len(stackB) >= 2
    /\ LET d == Len(stackB)
           f == stackB[d]
           length == 1 + f.max_length
       IN  /\ f.next > Len(f.children)
           /\ visited' = visited
           /\ stackB' = [Front(stackB) EXCEPT
                           ![d - 1].max_length = Max2(@, length)]
    /\ UNCHANGED <<probB, startIdx, max_path_length, retB, pcB, restB>>

\* lines 133-134 and 131-132: an inner call returns 1 + max_length to its caller
ReturnToCaller ==
    /\ pcB = "loop"
    /\ Len(stackB) >= 2
    /\ LET d == Len(stackB)
           f == stackB[d]
           length == 1 + f.max_length
       IN  /\ f.next > Len(f.children)
           /\ visited' = visited \ {f.node.state}
           /\ stackB' = [Front(stackB) EXCEPT
                           ![d - 1].max_length = Max2(@, length)]
    /\ UNCHANGED <<probB, startIdx, max_path_length, retB, pcB, restB>>

\* lines 133-134 and 139: the outermost call returns to the loop over the
\* start states
ReturnToLoop ==
    /\ pcB = "loop"
    /\ Len(stackB) = 1
    /\ LET f == stackB[1]
           length == 1 + f.max_length
       IN  /\ f.next > Len(f.children)
           /\ visited' = visited \ {f.node.state}
           /\ stackB' = <<>>
           /\ max_path_length' = Max2(max_path_length, length)
           /\ startIdx' = startIdx + 1
    /\ UNCHANGED <<probB, retB, pcB, restB>>

\* line 140: no start state is left
ReturnLongest ==
    /\ pcB = "loop"
    /\ stackB = <<>>
    /\ startIdx > Len(probB.initial)
    /\ retB' = max_path_length
    /\ pcB' = "done"
    /\ UNCHANGED <<probB, startIdx, max_path_length, stackB, visited, restB>>

NextB ==
    \/ ConstructIndexError
    \/ Construct
    \/ StartSearch
    \/ NextChild
    \/ ReturnToCaller
    \/ ReturnToLoop
    \/ ReturnLongest

SpecB == InitB /\ [][NextB]_vars

FairSpecB == SpecB /\ WF_vars(NextB)

(***************************************************************************)
(* Strategy B: reference notions.                                          *)
(***************************************************************************)
CellsB == {<<r, c>> : r \in 0..(probB.rows - 1), c \in 0..(probB.cols - 1)}

\* distinct cells that touch by a side or a corner
Adjacent8(a, b) ==
    /\ a # b
    /\ a[1] - b[1] \in {-1, 0, 1}
    /\ a[2] - b[2] \in {-1, 0, 1}

CharAt(cell) == probB.matrix[cell[1]][cell[2]]

\* the simple ascending paths that extend a path of P by one cell
ExtendAscending(P) ==
    UNION { { Append(p, cell) : cell \in
                { x \in CellsB : /\ Adjacent8(Last(p), x)
                                 /\ x \notin Range(p)
                                 /\ CharAt(x) = CharAt(Last(p)) + 1 } } :
            p \in P }

RECURSIVE AscendingFrom(_)
AscendingFrom(P) ==
    IF P = {} THEN {} ELSE P \cup AscendingFrom(ExtendAscending(P))

StartCellsB == {cell \in CellsB : CharAt(cell) = probB.start_char}

\* every simple 8-connected path that begins at a start cell and ascends by
\* one code point per step
AscendingPaths == AscendingFrom({<<cell>> : cell \in StartCellsB})

LongestAscending ==
    IF AscendingPaths = {} THEN 0
    ELSE CHOOSE n \in 1..(probB.rows * probB.cols) :
           /\ \E p \in AscendingPaths : Len(p) = n
           /\ \A p \in AscendingPaths : Len(p) <= n

\* C4: on a non-empty grid the search raises nothing, and the returned number
\* is the cell count of the longest simple ascending path from a start cell;
\* at least 1 when a start cell exists, else 0.
C4_LongestPath ==
    /\ DOMAIN probB.matrix # {} => pcB # "fault"
    /\ pcB = "done" =>
        /\ retB = LongestAscending
        /\ StartCellsB # {} => retB >= 1
        /\ StartCellsB = {} => retB = 0
        /\ (StartCellsB # {} /\
              \A cell \in StartCellsB :
                 ~\E x \in CellsB : Adjacent8(cell, x) /\ CharAt(x) = CharAt(cell) + 1)
              => retB = 1

\* a finished search with several start cells whose longest path has three cells
C4_Witness ==
    /\ pcB = "done"
    /\ Cardinality(StartCellsB) >= 2
    /\ retB = 3

(***************************************************************************)
(* Strategy C: flood_fill.py                                               *)
(* The code compares colors only for equality, with target_color and with  *)
(* replacement_color; three colors give every pattern of those tests.      *)
(***************************************************************************)
Colors == {"X", "C", "G"}

\* the start coordinates a caller may pass: in bounds, or off by one on any side
StartNodes(sh) == (-1..sh[1]) \X (-1..sh[2])

\* 0 <= x < rows and 0 <= y < cols
InBoundsC(x, y) == 0 <= x /\ x < probC.rows /\ 0 <= y /\ y < probC.cols

\* the guard of fill() comparing the start cell with target_color
start_is_filled_target ==
    matrixC[PyIndex(probC.start_node[1], probC.rows)]
           [PyIndex(probC.start_node[2], probC.cols)] = probC.target_color

\* fill() without its guard
start_is_filled_never == FALSE

\* line 34: the start cell already holds replacement_color
start_is_filled ==
    matrixC[PyIndex(probC.start_node[1], probC.rows)]
           [PyIndex(probC.start_node[2], probC.cols)] = probC.replacement_color

\* the outcome of a call: raises tells that IndexError was raised, returns is
\* the value returned otherwise
Raised == [raises |-> TRUE, returns |-> FALSE]

Returned(value) == [raises |-> FALSE, returns |-> value]

\* FloodFillProblem.is_valid with the color test against replacement_color
is_valid_notReplacement(x, y) ==
    IF IndexFaults(0, Cardinality(DOMAIN matrixC)) THEN Raised
    ELSE LET rows == Cardinality(DOMAIN matrixC)
             cols == Cardinality(DOMAIN matrixC[0])
         IN  Returned(/\ 0 <= x /\ x < rows
                      /\ 0 <= y /\ y < cols
                      /\ matrixC[x][y] # probC.replacement_color)

\* FloodFillProblem.is_valid: line 20 computes len(self.matrix[0]) first,
\* which raises IndexError on the empty matrix
is_valid(x, y) ==
    IF IndexFaults(0, Cardinality(DOMAIN matrixC)) THEN Raised
    ELSE LET rows == Cardinality(DOMAIN matrixC)
             cols == Cardinality(DOMAIN matrixC[0])
         IN  Returned(/\ 0 <= x /\ x < rows
                      /\ 0 <= y /\ y < cols
                      /\ matrixC[x][y] = probC.target_color)

\* the coordinate is_valid(x, y) indexes self.matrix at, if any
is_valid_reads(x, y) ==
    IF 0 <= x /\ x < probC.rows /\ 0 <= y /\ y < probC.cols
    THEN {<<x, y>>} ELSE {}

\* the neighbour offsets of the loop in dfs, in its order
Directions4 == <<<<-1, 0>>, <<1, 0>>, <<0, -1>>, <<0, 1>>>>

\* dfs recursing into the diagonal neighbours as well
NeighbourCalls_diagonal(x, y) ==
    [i \in 1..4 |-> <<x + Directions4[5 - i][1], y + Directions4[5 - i][2]>>]
      \o <<<<x - 1, y - 1>>, <<x - 1, y + 1>>, <<x + 1, y - 1>>, <<x + 1, y + 1>>>>

\* the four recursive calls of dfs(x, y), stacked so that the first is made first
NeighbourCalls(x, y) ==
    [i \in 1..4 |-> <<x + Directions4[5 - i][1], y + Directions4[5 - i][2]>>]

ZeroWrites(rows, cols) == [x \in 0..(rows - 1) |-> [y \in 0..(cols - 1) |-> 0]]

InitC ==
    /\ \E sh \in BoardShapes(MaxCellsC) :
         /\ matrixC \in Grids(sh, Colors)
         /\ \E st \in StartNodes(sh), tc \in Colors, rc \in Colors :
              probC = [start_node |-> st, target_color |-> tc,
                       replacement_color |-> rc, rows |-> sh[1], cols |-> sh[2]]
         /\ nWrites = ZeroWrites(sh[1], sh[2])
    /\ callsC = <<>>
    /\ pcC = "call"
    /\ runC = 1
    /\ entryC = matrixC
    /\ accessed = {}
    /\ IdleA
    /\ IdleB
    /\ IdleD

\* line 34: indexing self.matrix at the start coordinate raises IndexError
FillIndexError ==
    /\ pcC = "call"
    /\ \/ IndexFaults(probC.start_node[1], probC.rows)
       \/ IndexFaults(probC.start_node[2], probC.cols)
    /\ accessed' = accessed \cup {probC.start_node}
    /\ pcC' = "fault"
    /\ UNCHANGED <<probC, matrixC, callsC, runC, entryC, nWrites, restC>>

\* lines 34-35: the start cell already holds replacement_color
FillGuardReturn ==
    /\ pcC = "call"
    /\ ~IndexFaults(probC.start_node[1], probC.rows)
    /\ ~IndexFaults(probC.start_node[2], probC.cols)
    /\ start_is_filled
    /\ accessed' = accessed \cup {probC.start_node}
    /\ pcC' = "returned"
    /\ UNCHANGED <<probC, matrixC, callsC, runC, entryC, nWrites, restC>>

\* lines 34, 52: the guard does not apply and dfs(start_x, start_y) is called
FillStartDfs ==
    /\ pcC = "call"
    /\ ~IndexFaults(probC.start_node[1], probC.rows)
    /\ ~IndexFaults(probC.start_node[2], probC.cols)
    /\ ~start_is_filled
    /\ accessed' = accessed \cup {probC.start_node}
    /\ callsC' = <<probC.start_node>>
    /\ pcC' = "dfs"
    /\ UNCHANGED <<probC, matrixC, runC, entryC, nWrites, restC>>

\* lines 41-42: dfs(x, y) on a coordinate that is not valid returns; an
\* IndexError raised by is_valid would end fill()
DfsInvalid ==
    /\ pcC = "dfs"
    /\ callsC # <<>>
    /\ LET x == Last(callsC)[1]
           y == Last(callsC)[2]
           valid == is_valid(x, y)
       IN  /\ valid.raises \/ ~valid.returns
           /\ accessed' = accessed \cup is_valid_reads(x, y)
           /\ IF valid.raises
              THEN pcC' = "fault" /\ callsC' = callsC
              ELSE pcC' = pcC /\ callsC' = Front(callsC)
    /\ UNCHANGED <<probC, matrixC, runC, entryC, nWrites, restC>>

\* lines 41-49: dfs(x, y) on a valid coordinate: recolor it, then the four
\* recursive calls
DfsFill ==
    /\ pcC = "dfs"
    /\ callsC # <<>>
    /\ LET x == Last(callsC)[1]
           y == Last(callsC)[2]
           valid == is_valid(x, y)
       IN  /\ ~valid.raises /\ valid.returns
           /\ accessed' = accessed \cup is_valid_reads(x, y) \cup {<<x, y>>}
           /\ matrixC' = [matrixC EXCEPT ![x][y] = probC.replacement_color]
           /\ nWrites' = [nWrites EXCEPT ![x][y] = @ + 1]
           /\ callsC' = Front(callsC) \o NeighbourCalls(x, y)
    /\ UNCHANGED <<probC, pcC, runC, entryC, restC>>

\* line 53: dfs(start_x, start_y) has returned
FillReturn ==
    /\ pcC = "dfs"
    /\ callsC = <<>>
    /\ pcC' = "returned"
    /\ UNCHANGED <<probC, matrixC, callsC, runC, entryC, accessed, nWrites, restC>>

\* the caller runs fill() again on the same problem object
FillAgain ==
    /\ pcC = "returned"
    /\ runC = 1
    /\ runC' = 2
    /\ entryC' = matrixC
    /\ nWrites' = ZeroWrites(probC.rows, probC.cols)
    /\ pcC' = "call"
    /\ UNCHANGED <<probC, matrixC, callsC, accessed, restC>>

\* FloodFillProblem.fill
fill ==
    \/ FillIndexError
    \/ FillGuardReturn
    \/ FillStartDfs
    \/ DfsInvalid
    \/ DfsFill
    \/ FillReturn

NextC == fill \/ FillAgain

SpecC == InitC /\ [][NextC]_vars

FairSpecC == SpecC /\ WF_vars(NextC)

(***************************************************************************)
(* Strategy C: reference notions.                                          *)
(***************************************************************************)
CellsC == {<<x, y>> : x \in 0..(probC.rows - 1), y \in 0..(probC.cols - 1)}

StartInBounds == InBoundsC(probC.start_node[1], probC.start_node[2])

\* cells that share a side
Adjacent4(a, b) ==
    \/ a[1] = b[1] /\ a[2] - b[2] \in {-1, 1}
    \/ a[2] = b[2] /\ a[1] - b[1] \in {-1, 1}

HeldTarget(cell) == entryC[cell[1]][cell[2]] = probC.target_color

RECURSIVE GrowRegion(_)
GrowRegion(S) ==
    LET N == S \cup {cell \in CellsC :
                       HeldTarget(cell) /\ \E s \in S : Adjacent4(s, cell)}
    IN  IF N = S THEN S ELSE GrowRegion(N)

\* the cells reachable from the start coordinate by a 4-connected path of
\* cells that held target_color when fill() was called
RegionC ==
    IF StartInBounds /\ HeldTarget(probC.start_node)
    THEN GrowRegion({probC.start_node})
    ELSE {}

\* C5: after fill() every cell of the start's region of target_color holds
\* replacement_color and every other cell holds its original value; nothing
\* changes when the start cell did not hold target_color.
C5_FloodFillContainment ==
    (pcC = "returned" /\ StartInBounds) =>
        /\ \A cell \in CellsC :
              matrixC[cell[1]][cell[2]] =
                 IF cell \in RegionC THEN probC.replacement_color
                 ELSE entryC[cell[1]][cell[2]]
        /\ ~HeldTarget(probC.start_node) => matrixC = entryC

\* a first fill that recolored a region of two cells and left another
\* target_color cell, not connected to it, alone
C5_Witness ==
    /\ pcC = "returned"
    /\ runC = 1
    /\ StartInBounds
    /\ probC.target_color # probC.replacement_color
    /\ Cardinality(RegionC) = 2
    /\ \E cell \in CellsC \ RegionC : HeldTarget(cell)

\* C7: no grid strategy indexes the grid at a coordinate outside
\* [0, rows) x [0, cols); here for every index fill() makes, the guard's read
\* of the caller's start coordinate included.
C7_BoundsSafety == \A a \in accessed : InBoundsC(a[1], a[2])

\* C8: a second fill() with the same parameters on the result of the first
\* changes no cell; and a fill() whose start cell holds replacement_color on
\* entry returns at once, without traversal and with no cell modified.
C8_Idempotence ==
    StartInBounds =>
        /\ (pcC = "returned" /\ runC = 2) => matrixC = entryC
        /\ entryC[probC.start_node[1]][probC.start_node[2]] = probC.replacement_color
              => (pcC # "dfs" /\ matrixC = entryC)

\* a second fill() has returned on a grid the first one had recolored
C8_Witness ==
    /\ pcC = "returned"
    /\ runC = 2
    /\ StartInBounds
    /\ probC.target_color # probC.replacement_color
    /\ Cardinality(accessed) >= 3
    /\ entryC[probC.start_node[1]][probC.start_node[2]] = probC.replacement_color

(***************************************************************************)
(* Strategy D: word_matrix.py                                              *)
(* A string is the sequence of its letters; the code compares letters and  *)
(* strings only for equality.                                              *)
(***************************************************************************)
Letters == {"a", "b"}

\* the words of exactly n letters
WordsOfLen(n) == [1..n -> Letters]

\* every dictionary of non-empty words with at most k letters in total
RECURSIVE DictsUpTo(_)
DictsUpTo(k) ==
    IF k = 0 THEN {{}}
    ELSE DictsUpTo(k - 1) \cup
         UNION { UNION { { d \cup {w} : d \in {e \in DictsUpTo(k - n) : w \notin e} } :
                         w \in WordsOfLen(n) } :
                 n \in 1..k }

\* _build_prefix_set building word[:i + 1] for i in range(1, len(word))
build_prefix_set_skipFirst(words) ==
    UNION { {SubSeq(word, 1, i + 1) : i \in 1..(Len(word) - 1)} : word \in words }

\* _build_prefix_set building word[:i + 1] for i in range(len(word) - 1)
build_prefix_set_properOnly(words) ==
    UNION { {SubSeq(word, 1, i + 1) : i \in 0..(Len(word) - 2)} : word \in words }

\* MatrixWordSearchProblem._build_prefix_set: word[:i + 1] for i in range(len(word))
build_prefix_set(words) ==
    UNION { {SubSeq(word, 1, i + 1) : i \in 0..(Len(word) - 1)} : word \in words }

\* MatrixWordSearchProblem.__init__
MatrixWordSearchProblem(board, dictionary, rows) ==
    [board |-> board, dictionary |-> dictionary, rows |-> rows,
     cols |-> IF rows > 0 THEN Cardinality(DOMAIN board[0]) ELSE 0,
     prefixes |-> build_prefix_set(dictionary)]

\* is_valid_move without the test that (nx, ny) is not on the path
is_valid_move_revisit(nx, ny, rows, cols, path) ==
    0 <= nx /\ nx < rows /\ 0 <= ny /\ ny < cols

\* is_valid_move
is_valid_move(nx, ny, rows, cols, path) ==
    0 <= nx /\ nx < rows /\ 0 <= ny /\ ny < cols /\ <<nx, ny>> \notin Range(path)

\* the directions list of MatrixWordSearchProblem.actions
Directions8 == <<<<-1, -1>>, <<-1, 0>>, <<-1, 1>>, <<0, -1>>,
                 <<0, 1>>, <<1, -1>>, <<1, 0>>, <<1, 1>>>>

\* a search state (x, y, path)
StateD(x, y, path) == [x |-> x, y |-> y, path |-> path]

\* MatrixWordSearchProblem.actions
WordSearch_actions(state) ==
    LET Moves == [i \in 1..8 |-> <<state.x + Directions8[i][1],
                                   state.y + Directions8[i][2]>>]
        Ok(m) == is_valid_move(m[1], m[2], probD.rows, probD.cols, state.path)
    IN  SelectSeq(Moves, Ok)

\* MatrixWordSearchProblem.result
WordSearch_result(state, action) ==
    StateD(action[1], action[2], Append(state.path, action))

\* "".join(self.board[i][j] for i, j in path)
Spell(path) == [k \in 1..Len(path) |-> probD.board[path[k][1]][path[k][2]]]

InitD ==
    /\ \E sh \in BoardShapes(MaxCellsD) :
         \E board \in Grids(sh, Letters) :
           \E dictionary \in DictsUpTo(MaxDictLetters) :
             probD = MatrixWordSearchProblem(board, dictionary, sh[1])
    /\ cellIdx = 1
    /\ found_all = {}
    /\ found_words = {}
    /\ stackD = <<>>
    /\ retD = {}
    /\ pcD = "outer"
    /\ IdleA
    /\ IdleB
    /\ IdleC

\* lines 154-155, 137-138: find_words_from(x, y) is called for the next coordinate
CallFindWordsFrom ==
    /\ pcD = "outer"
    /\ cellIdx <= probD.rows * probD.cols
    /\ LET xy == RowMajor(probD.rows, probD.cols)[cellIdx]
       IN  stackD' = <<StateD(xy[1], xy[2], <<xy>>)>>
    /\ found_words' = {}
    /\ pcD' = "inner"
    /\ UNCHANGED <<probD, cellIdx, found_all, retD, restD>>

\* lines 139-148: one iteration of the loop of find_words_from
PopState ==
    /\ pcD = "inner"
    /\ stackD # <<>>
    /\ LET state == Last(stackD)
           word == Spell(state.path)
           acts == WordSearch_actions(state)
       IN  /\ found_words' = IF word \in probD.dictionary
                             THEN found_words \cup {word}
                             ELSE found_words
           /\ stackD' = IF word \in probD.prefixes
                        THEN Front(stackD) \o
                               [i \in 1..Len(acts) |->
                                  WordSearch_result(state, acts[i])]
                        ELSE Front(stackD)
    /\ UNCHANGED <<probD, cellIdx, found_all, retD, pcD, restD>>

\* lines 149, 155: find_words_from returns and its words are added
ReturnFound ==
    /\ pcD = "inner"
    /\ stackD = <<>>
    /\ found_all' = found_all \cup found_words
    /\ cellIdx' = cellIdx + 1
    /\ pcD' = "outer"
    /\ UNCHANGED <<probD, found_words, stackD, retD, restD>>

\* line 156: every coordinate has been searched from
ReturnAll ==
    /\ pcD = "outer"
    /\ cellIdx > probD.rows * probD.cols
    /\ retD' = found_all
    /\ pcD' = "done"
    /\ UNCHANGED <<probD, cellIdx, found_all, found_words, stackD, restD>>

\* MatrixWordSearchProblem.find_words_from
find_words_from == PopState \/ ReturnFound

\* MatrixWordSearchProblem.find_all_words
find_all_words == CallFindWordsFrom \/ find_words_from \/ ReturnAll

NextD == find_all_words

SpecD == InitD /\ [][NextD]_vars

FairSpecD == SpecD /\ WF_vars(NextD)

(***************************************************************************)
(* Strategy D: reference notions.                                          *)
(***************************************************************************)
CellsD == {<<x, y>> : x \in 0..(probD.rows - 1), y \in 0..(probD.cols - 1)}

LetterAt(cell) == probD.board[cell[1]][cell[2]]

\* the sequences of k pairwise-distinct cells, consecutive ones 8-adjacent,
\* whose letters are the first k letters of w
RECURSIVE Traces(_, _)
Traces(w, k) ==
    IF k = 1 THEN {<<cell>> : cell \in {x \in CellsD : LetterAt(x) = w[1]}}
    ELSE UNION { { Append(p, cell) : cell \in
                     { x \in CellsD : /\ Adjacent8(Last(p), x)
                                      /\ x \notin Range(p)
                                      /\ LetterAt(x) = w[k] } } :
                 p \in Traces(w, k - 1) }

Traceable(w) == Traces(w, Len(w)) # {}

\* C6: find_all_words returns exactly the dictionary words that can be traced
\* on the board along pairwise-distinct, 8-adjacent cells.
C6_WordSearchExact ==
    pcD = "done" => retD = {w \in probD.dictionary : Traceable(w)}

\* a finished search that found a word of three letters and missed another
\* dictionary word
C6_Witness ==
    /\ pcD = "done"
    /\ \E w \in retD : Len(w) = 3
    /\ probD.dictionary \ retD # {}

\* every state on the stack: path of pairwise-distinct in-bounds coordinates
\* ending in (x, y)
StackStatesSound ==
    \A i \in 1..Len(stackD) :
       LET st == stackD[i]
       IN  /\ Len(st.path) >= 1
           /\ Last(st.path) = <<st.x, st.y>>
           /\ \A k \in 1..Len(st.path) : st.path[k] \in CellsD
           /\ \A j, k \in 1..Len(st.path) : j # k => st.path[j] # st.path[k]
           /\ Len(st.path) <= probD.rows * probD.cols

\* C10: every state placed on the stack carries a path of pairwise-distinct
\* in-bounds coordinates ending in its (row, col), so no path is longer than
\* rows * cols; and find_all_words terminates.
C10_WordSearchTermination == ([]StackStatesSound) /\ <>(pcD = "done")

\* a state whose path covers the whole 2 x 2 board is on the stack
C10_Witness ==
    /\ pcD = "inner"
    /\ probD.rows = 2
    /\ probD.cols = 2
    /\ \E i \in 1..Len(stackD) : Len(stackD[i].path) = 4
(***************************************************************************)
(* The four strategies together: a caller constructs one Problem and runs  *)
(* one strategy on it.                                                     *)
(***************************************************************************)
Init == InitA \/ InitB \/ InitC \/ InitD

Next == NextA \/ NextB \/ NextC \/ NextD

Spec == Init /\ [][Next]_vars

NoWordTraceable == \A w \in probD.dictionary : ~Traceable(w)

\* no cell of the matrix given to MatrixPathProblem holds start_char
NoStartCell ==
    \A r \in DOMAIN probB.matrix :
       \A c \in DOMAIN probB.matrix[r] : probB.matrix[r][c] # probB.start_char

DegenerateGridResults ==
    /\ NoStartCell => pcB # "fault"
    /\ (pcB = "done" /\ NoStartCell) => retB = 0
    /\ StartInBounds => pcC # "fault"
    /\ (pcC = "returned" /\ StartInBounds /\ RegionC = {}) => matrixC = entryC
    /\ (pcD = "done" /\ NoWordTraceable) => retD = {}

\* C11: degenerate inputs give empty results and raise no exception: on an
\* empty graph strategy A returns no path; on a grid without a cell equal to
\* the start character strategy B returns 0; a fill whose start region is
\* empty leaves the grid unmodified; a dictionary without a traceable word
\* gives the empty set.
C11_DegenerateAsStated ==
    /\ (pcA = "done" /\ graph = EmptyGraph) =>
          retA = [isNone |-> TRUE, path |-> <<>>, cost |-> 0, costInf |-> TRUE]
    /\ DegenerateGridResults

(***************************************************************************)
(* Strategy A: order of the pops.                                          *)
(***************************************************************************)
WasPopped(n) == \E i \in 1..Len(popped) : popped[i] = n

\* the position of Node n in the order of the pops
PopPos(n) == CHOOSE i \in 1..Len(popped) : popped[i] = n

\* Node n is a proper ancestor of Node d on d's parent chain
RECURSIVE IsAncestor(_, _)
IsAncestor(n, d) ==
    /\ nodes[d].parent # 0
    /\ (nodes[d].parent = n \/ IsAncestor(n, nodes[d].parent))

HasChildren(n) == \E c \in 1..Len(nodes) : nodes[c].parent = n

\* Node m was on the frontier when the Node popped at position i was expanded
OnFrontierAt(m, i) ==
    /\ WasPopped(m) /\ PopPos(m) > i
    /\ nodes[m].parent # 0
    /\ PopPos(nodes[m].parent) < i

\* C12: after a node with children c1..ck is expanded, the next node popped
\* is ck, the child of the last action; and every descendant of the expanded
\* node that is popped is popped before any node that was on the frontier
\* before the expansion.
C12_LifoOrder ==
    \A i \in 1..Len(popped) :
       LET n == popped[i]
       IN  HasChildren(n) =>
             /\ i < Len(popped) =>
                   /\ nodes[popped[i + 1]].parent = n
                   /\ nodes[popped[i + 1]].action =
                         Last(Italy_actions(nodes[n].state))
             /\ \A m, d \in 1..Len(nodes) :
                   (OnFrontierAt(m, i) /\ IsAncestor(n, d) /\ WasPopped(d))
                      => PopPos(d) < PopPos(m)

\* the last of two children was expanded while its sibling waited on the
\* frontier; its descendants were popped, and then the waiting sibling
C12_Witness ==
    \E i \in 1..Len(popped) :
       /\ Len(Italy_actions(initial)) >= 2
       /\ HasChildren(popped[i])
       /\ \E m, d \in 1..Len(nodes) :
             /\ OnFrontierAt(m, i)
             /\ nodes[m].parent # popped[i]
             /\ IsAncestor(popped[i], d)
             /\ WasPopped(d)
(***************************************************************************)
(* Strategy B: the visited set and the recursion path.                     *)
(***************************************************************************)
\* the cells of the active recursion path, from the start cell to the
\* current cell
ActivePathB == {stackB[i].node.state : i \in 1..Len(stackB)}

VisitedIsActivePath ==
    /\ visited = ActivePathB
    /\ Cardinality(visited) = Len(stackB)

\* a step in which a call of recursive_dfs returns
ReturnsB == pcB = "loop" /\ Len(stackB') < Len(stackB)

\* C13: during recursive_dfs the visited set is exactly the set of cells on
\* the active recursion path (so it is empty between two start cells), and
\* every call returns with visited equal to what it was when the call was
\* entered.
C13_Backtracking ==
    /\ [](VisitedIsActivePath)
    /\ [][ReturnsB => visited' = Last(stackB).entry]_vars

\* a start cell's call returned after a nested call had returned to it, and
\* the next start cell has not been entered yet
C13_Witness ==
    /\ pcB = "loop"
    /\ stackB = <<>>
    /\ startIdx = 2
    /\ max_path_length >= 2
    /\ visited = {}
(***************************************************************************)
(* Strategy D: pruning by prefixes.                                        *)
(***************************************************************************)
\* w is the beginning of a dictionary word, or a whole dictionary word
IsPrefixOfWord(w) ==
    \E v \in probD.dictionary :
       /\ Len(w) <= Len(v)
       /\ \A k \in 1..Len(w) : v[k] = w[k]

\* the letters of the cells of a path, read off the board
Letters_of(path) == [k \in 1..Len(path) |-> LetterAt(path[k])]

\* the states one move away from state: its 8-adjacent cells not on its path
NeighbourStates(state) ==
    { StateD(cell[1], cell[2], Append(state.path, cell)) :
        cell \in { x \in CellsD : /\ Adjacent8(<<state.x, state.y>>, x)
                                  /\ x \notin Range(state.path) } }

\* a step of find_words_from that pops a state
PopsD == pcD = "inner" /\ stackD # <<>>

\* C14: a popped state has its neighbours pushed if and only if the string
\* its path spells is a prefix (full word included) of a dictionary word;
\* otherwise nothing is pushed; and a string that is a dictionary word is
\* recorded whether or not the state is expanded.
C14_PrefixPruning ==
    [][PopsD =>
         LET state == Last(stackD)
             word == Letters_of(state.path)
             kept == Len(stackD) - 1
             pushed == SubSeq(stackD', kept + 1, Len(stackD'))
         IN  /\ Len(stackD') >= kept
             /\ SubSeq(stackD', 1, kept) = Front(stackD)
             /\ IF IsPrefixOfWord(word)
                THEN /\ Range(pushed) = NeighbourStates(state)
                     /\ Len(pushed) = Cardinality(NeighbourStates(state))
                ELSE pushed = <<>>
             /\ (word \in probD.dictionary) => (word \in found_words')
             /\ (word \notin probD.dictionary) => (found_words' = found_words)
    ]_vars

\* a word was recorded, neighbours were pushed, and the state on top of the
\* stack spells a string of two letters that begins no dictionary word while
\* it still has a neighbour to move to
C14_Witness ==
    /\ pcD = "inner"
    /\ stackD # <<>>
    /\ found_words # {}
    /\ Len(Last(stackD).path) = 2
    /\ ~IsPrefixOfWord(Letters_of(Last(stackD).path))
    /\ NeighbourStates(Last(stackD)) # {}
(***************************************************************************)
(* Strategy A: the shape of path_states and path_actions.                  *)
(***************************************************************************)
\* the number of Nodes on the parent chain of n, n included; 0 for None
RECURSIVE Depth(_)
Depth(n) == IF n = 0 THEN 0 ELSE 1 + Depth(nodes[n].parent)

\* the Node without parent at the end of the parent chain of n
RECURSIVE RootOf(_)
RootOf(n) == IF nodes[n].parent = 0 THEN n ELSE RootOf(nodes[n].parent)

\* C15: path_states is empty for failure, cutoff and None; for every other
\* node it ends in node.state, begins with the root's state and has length
\* 1 + depth(node.parent); path_actions is empty at the root and one shorter
\* than path_states (for the sentinels, which have no parent, path_actions
\* is empty as well).
C15_PathShape ==
    /\ path_states(nodes, failure) = <<>>
    /\ path_states(nodes, cutoff) = <<>>
    /\ path_states(nodes, 0) = <<>>
    /\ path_actions(nodes, failure) = <<>>
    /\ path_actions(nodes, cutoff) = <<>>
    /\ \A n \in 1..Len(nodes) :
          LET ps == path_states(nodes, n)
              pa == path_actions(nodes, n)
          IN  /\ Len(ps) = 1 + Depth(nodes[n].parent)
              /\ ps[Len(ps)] = nodes[n].state
              /\ ps[1] = nodes[RootOf(n)].state
              /\ (nodes[n].parent = 0) => (pa = <<>>)
              /\ Len(pa) = Len(ps) - 1

\* the search created a node with two ancestors
C15_Witness ==
    \E n \in 1..Len(nodes) :
       /\ Depth(n) = 3
       /\ nodes[n].state # nodes[RootOf(n)].state
(***************************************************************************)
(* Strategy A: path costs along the parent chains.                         *)
(***************************************************************************)
\* the distance the graph stores for the road from s to t
RoadCost(s, t) == CHOOSE c \in 0..(MaxCost + 1) : <<t, c>> \in Range(graph[s])

\* C16: every node expand creates has path_cost = parent.path_cost +
\* action_cost(parent.state, action, node.state), which is at least
\* parent.path_cost; the root has path_cost 0.
C16_CostMonotone ==
    \A n \in 1..Len(nodes) :
       IF nodes[n].parent = 0
       THEN nodes[n].path_cost = 0
       ELSE LET p == nodes[nodes[n].parent]
            IN  /\ <<nodes[n].state, nodes[n].path_cost - p.path_cost>>
                      \in Range(graph[p.state])
                /\ nodes[n].path_cost =
                      p.path_cost + RoadCost(p.state, nodes[n].state)
                /\ nodes[n].path_cost >= p.path_cost
                /\ nodes[n].action = nodes[n].state

\* a node two roads away from the root, reached over roads of different
\* lengths
C16_Witness ==
    \E n \in 1..Len(nodes) :
       /\ nodes[n].parent # 0
       /\ nodes[nodes[n].parent].parent # 0
       /\ nodes[nodes[n].parent].path_cost #
             nodes[n].path_cost - nodes[nodes[n].parent].path_cost
(***************************************************************************)
(* Strategy A: the least distance.                                         *)
(***************************************************************************)
\* more than any path without a repeated state can cost
Unreachable == (MaxNodes + 1) * (MaxCost + 1)

Min2(a, b) == IF a <= b THEN a ELSE b

\* the least of the numbers f[1], ..., f[k], Unreachable if there is none
RECURSIVE MinOf(_, _)
MinOf(f, k) == IF k = 0 THEN Unreachable ELSE Min2(f[k], MinOf(f, k - 1))

\* the least total distance from s to the goal over at most k roads
RECURSIVE LeastCost(_, _)
LeastCost(s, k) ==
    IF s = goal THEN 0
    ELSE IF k = 0 THEN Unreachable
    ELSE MinOf([i \in 1..Len(graph[s]) |->
                   Min2(Unreachable,
                        graph[s][i][2] + LeastCost(graph[s][i][1], k - 1))],
               Len(graph[s]))

\* C17: when the goal is reachable, the cost depth_first_search returns is
\* the minimum total action cost over all paths from problem.initial to the
\* goal.
C17_MinimumDistance ==
    (pcA = "done" /\ GoalReachable) =>
       /\ ~retA.isNone
       /\ retA.cost = LeastCost(initial, MaxNodes)
(***************************************************************************)
(* Strategy A: the returned path repeats no state.                         *)
(***************************************************************************)
\* the Node whose path was returned: the last one popped
ReturnedNode == popped[Len(popped)]

\* C18: no state occurs twice in a returned path: every ancestor of the
\* returned node was popped at an earlier step of its own and its state is
\* explored, and no ancestor has the returned node's state.
C18_SimplePath ==
    ReturnedPathA =>
       /\ \A i, j \in 1..Len(retA.path) : i < j => retA.path[i] # retA.path[j]
       /\ \A a \in 1..Len(nodes) :
             IsAncestor(a, ReturnedNode) =>
                /\ WasPopped(a)
                /\ PopPos(a) < Len(popped)
                /\ nodes[a].state \in explored
                /\ nodes[a].state # nodes[ReturnedNode].state
                /\ \A b \in 1..Len(nodes) :
                      (IsAncestor(b, ReturnedNode) /\ b # a) =>
                         /\ PopPos(b) # PopPos(a)
                         /\ nodes[b].state # nodes[a].state

\* a path of three states was returned although a node for one of its states
\* had been created a second time and discarded
C18_Witness ==
    /\ ReturnedPathA
    /\ Len(retA.path) = 3
    /\ \E m \in 1..Len(nodes) :
          /\ ~IsAncestor(m, ReturnedNode)
          /\ m # ReturnedNode
          /\ WasPopped(m)
          /\ nodes[m].state \in Range(retA.path)
(***************************************************************************)
(* Strategy C: termination.                                                *)
(***************************************************************************)
WritesAtMostOnce ==
    \A cell \in CellsC : nWrites[cell[1]][cell[2]] <= 1

\* a step that writes cell
WritesCell(cell) == nWrites'[cell[1]][cell[2]] > nWrites[cell[1]][cell[2]]

\* C19: from an in-bounds start, fill() returns after finitely many dfs
\* calls, also when target_color = replacement_color; a run of fill() writes
\* each cell at most once, and a cell is written only while it holds
\* target_color and does not hold it afterwards.
C19_FillTerminates ==
    /\ [](WritesAtMostOnce)
    /\ [][\A cell \in CellsC :
             WritesCell(cell) =>
                /\ matrixC[cell[1]][cell[2]] = probC.target_color
                /\ matrixC'[cell[1]][cell[2]] # probC.target_color]_vars
    /\ StartInBounds => <>(pcC = "returned" /\ runC = 2)

\* fill() has returned with target_color = replacement_color: the start cell
\* holds another color, a cell next to it holds target_color, and nothing
\* was written
C19_Witness ==
    /\ pcC = "returned"
    /\ StartInBounds
    /\ probC.target_color = probC.replacement_color
    /\ matrixC[probC.start_node[1]][probC.start_node[2]] # probC.target_color
    /\ \E cell \in CellsC :
          /\ Adjacent4(cell, probC.start_node)
          /\ matrixC[cell[1]][cell[2]] = probC.target_color
    /\ nWrites = ZeroWrites(probC.rows, probC.cols)
    /\ accessed # {}
(***************************************************************************)
(* Strategy B: the test against visited.                                   *)
(***************************************************************************)
\* the largest number of S, 0 if there is none
MaxOf(S) == IF S = {} THEN 0 ELSE CHOOSE m \in S : \A n \in S : n <= m

\* the length recursive_dfs would return for cell if it had no visited set
RECURSIVE LengthFrom(_)
LengthFrom(cell) ==
    1 + MaxOf({ LengthFrom(x) : x \in { y \in CellsB :
                                          /\ Adjacent8(cell, y)
                                          /\ CharAt(y) = CharAt(cell) + 1 } })

\* the children the loop of stackB[k] has not reached yet
PendingChildren(k) ==
    { stackB[k].children[i] : i \in stackB[k].next..Len(stackB[k].children) }

\* C20: no child that a loop of recursive_dfs still has to test has its
\* state in visited, the character of a child of the innermost call being
\* larger than that of every cell on the active path; so the result is what
\* it would be without the visited set.
C20_VisitedNeverRejects ==
    /\ \A k \in 1..Len(stackB) :
          \A child \in PendingChildren(k) : child.state \notin visited
    /\ stackB # <<>> =>
          \A child \in PendingChildren(Len(stackB)) :
             \A cell \in visited : CharAt(child.state) > CharAt(cell)
    /\ pcB = "done" => retB = MaxOf({ LengthFrom(cell) : cell \in StartCellsB })

\* two calls are active, and the loop of each still has a child to test
C20_Witness ==
    /\ Len(stackB) = 2
    /\ PendingChildren(1) # {}
    /\ PendingChildren(2) # {}
    /\ Cardinality(visited) = 2
====
